---- MODULE Spec2Model ----
(***************************************************************************)
(* Model of scripts/clean_aesop_fables.py: clean_fables(file_path) reads a *)
(* text file, classifies every line (commentary, title, blank, body),      *)
(* builds cleaned_lines and overwrites the file with the joined, stripped  *)
(* text.  Strings are sequences of one-character strings.                  *)
(***************************************************************************)
EXTENDS Integers, Sequences, FiniteSets, TLC

\* Largest number of raw lines of the input file.
MaxLines == 3

\* Largest number of successive calls of clean_fables on the same path.
MaxRuns == 2

VARIABLES
    fileExists,          \* os.path.exists(file_path)
    fileText,            \* the contents of the file at file_path
    pc,                  \* position in clean_fables: start, loop, done, error
    lines,               \* file.readlines()
    i,                   \* index of the raw line the for loop handles next
    cleaned_lines,       \* the Cleaned Sequence
    previous_line_type,  \* "none", "title", "text" or "empty"
    outputs,             \* history: the text written by each completed call
    runs                 \* history: the number of calls started so far

vars == <<fileExists, fileText, pc, lines, i, cleaned_lines,
          previous_line_type, outputs, runs>>

----------------------------------------------------------------------------
\* Characters and the str methods the script uses.

NL == "\n"

\* The characters of the model: "A" an uppercase letter, "a" a lowercase
\* letter, "#" a punctuation character, and the whitespace characters " ",
\* "\t", "\f" and "\n".

\* The characters str.strip() and str.rstrip() remove by default.
IsWhitespace(c) == c \in {" ", "\t", "\f", NL}

\* str.isalpha() of one character.
isalpha(c) == c \in {"A", "a"}

IsUpperChar(c) == c = "A"

IsLowerChar(c) == c = "a"

RECURSIVE lstrip(_)
lstrip(s) ==
    IF s = <<>> THEN s
    ELSE IF IsWhitespace(Head(s)) THEN lstrip(Tail(s))
    ELSE s

RECURSIVE rstrip(_)
rstrip(s) ==
    IF s = <<>> THEN s
    ELSE IF IsWhitespace(s[Len(s)]) THEN rstrip(SubSeq(s, 1, Len(s) - 1))
    ELSE s

\* str.strip(): both ends.
strip(s) == rstrip(lstrip(s))

\* line.rstrip("\n"): only trailing newline characters go.
RECURSIVE rstrip_nl(_)
rstrip_nl(s) ==
    IF s = <<>> THEN s
    ELSE IF s[Len(s)] = NL THEN rstrip_nl(SubSeq(s, 1, Len(s) - 1))
    ELSE s

\* str.isupper(): at least one cased character and no lowercase one.
isupper(s) ==
    /\ \E k \in 1..Len(s) : IsUpperChar(s[k])
    /\ \A k \in 1..Len(s) : ~IsLowerChar(s[k])

\* str.startswith(c) for a one-character prefix.
startswith(s, c) == Len(s) > 0 /\ s[1] = c

\* sep.join(seq) for a one-character separator.
RECURSIVE join(_, _)
join(sep, seq) ==
    IF seq = <<>> THEN <<>>
    ELSE IF Len(seq) = 1 THEN seq[1]
    ELSE seq[1] \o <<sep>> \o join(sep, Tail(seq))

\* Index of the first newline of s, 0 when there is none.
RECURSIVE FirstNL(_, _)
FirstNL(s, k) ==
    IF k > Len(s) THEN 0
    ELSE IF s[k] = NL THEN k
    ELSE FirstNL(s, k + 1)

\* file.readlines(): the lines of the text, each with its newline kept; the
\* last line has none when the text does not end with one.
RECURSIVE readlines(_)
readlines(text) ==
    IF text = <<>> THEN <<>>
    ELSE LET n == FirstNL(text, 1) IN
         IF n = 0 THEN <<text>>
         ELSE <<SubSeq(text, 1, n)>> \o readlines(SubSeq(text, n + 1, Len(text)))

----------------------------------------------------------------------------
\* The pieces of clean_fables.

Delimiter == <<"#", "#", "#">>

is_title_line(line) ==
    LET stripped == strip(line) IN
    /\ isupper(stripped)
    /\ \E k \in 1..Len(stripped) : isalpha(stripped[k])

IsCommentaryTabOnly(stripped) == startswith(stripped, "\t")

\* The commentary test of the loop: the line is indented.
IsCommentary(stripped) == startswith(stripped, " ") \/ startswith(stripped, "\t")

\* The empty-line test of the loop.
IsBlank(stripped) == strip(stripped) = <<>>

LineKind(stripped) ==
    IF IsCommentary(stripped) THEN "commentary"
    ELSE IF is_title_line(stripped) THEN "title"
    ELSE IF IsBlank(stripped) THEN "blank"
    ELSE "body"

NeedsDelimiterAlways(cl) == TRUE

NeedsDelimiterFirstOnly(cl) == cl = <<>>

\* The title branch puts a delimiter first unless one is the last entry.
NeedsDelimiter(cl) == cl = <<>> \/ cl[Len(cl)] # Delimiter

TitleEntryTrimmed(stripped) == strip(stripped)

\* The entry the title branch appends for the line.
TitleEntry(stripped) == stripped

AppendsBlankAlways(cl, prev) == TRUE

\* The blank branch appends the empty string under this condition.
AppendsBlank(cl, prev) ==
    /\ prev \in {"title", "text"}
    /\ (cl = <<>> \/ cl[Len(cl)] # <<>>)

FinalTextNoStrip(cl) == join(NL, cl) \o <<NL>>

\* "\n".join(cleaned_lines).strip() + "\n"
FinalText(cl) == strip(join(NL, cl)) \o <<NL>>

----------------------------------------------------------------------------
\* The input files.

\* Raw lines of the input, one for each way the loop can treat a line.
RawLines ==
    { <<>>,                     \* empty
      <<"\f">>,                 \* whitespace only, not indented
      <<" ">>,                  \* a single space: indented
      <<" ", "a">>,             \* commentary, space
      <<"\t", "A">>,            \* commentary, tab
      Delimiter,                \* a delimiter line already in the input
      <<"A">>,                  \* title
      <<"A", " ">>,             \* title with trailing whitespace
      <<"\f", "A", "#">>,       \* title with leading whitespace and punctuation
      <<"a">>,                  \* body
      <<"A", "a", " ">>,        \* body, mixed case, trailing whitespace
      <<"\f", "a">> }           \* body with leading whitespace

InputLines == UNION { [1..n -> RawLines] : n \in 0..MaxLines }

InputTexts == { join(NL, ls) : ls \in InputLines }

Init ==
    /\ fileExists \in BOOLEAN
    /\ fileText \in (IF fileExists THEN InputTexts ELSE {<<>>})
    /\ pc = "start"
    /\ lines = <<>>
    /\ i = 1
    /\ cleaned_lines = <<>>
    /\ previous_line_type = "none"
    /\ outputs = <<>>
    /\ runs = 1

----------------------------------------------------------------------------
\* The steps of clean_fables.

RaiseNotFoundAfterOpen ==
    /\ pc = "start"
    /\ ~fileExists
    /\ pc' = "error"
    /\ fileExists' = TRUE
    /\ fileText' = <<>>
    /\ UNCHANGED <<lines, i, cleaned_lines, previous_line_type, outputs, runs>>

\* The path does not exist: FileNotFoundError.
RaiseNotFound ==
    /\ pc = "start"
    /\ ~fileExists
    /\ pc' = "error"
    /\ UNCHANGED <<fileExists, fileText, lines, i, cleaned_lines,
                   previous_line_type, outputs, runs>>

\* The path exists: read the lines and start the pass.
ReadLines ==
    /\ pc = "start"
    /\ fileExists
    /\ lines' = readlines(fileText)
    /\ cleaned_lines' = <<>>
    /\ previous_line_type' = "none"
    /\ i' = 1
    /\ pc' = "loop"
    /\ UNCHANGED <<fileExists, fileText, outputs, runs>>

InLoop == pc = "loop" /\ i <= Len(lines)

\* stripped = line.rstrip("\n") of the line the loop is at.
Stripped == rstrip_nl(lines[i])

CommentaryResetsType ==
    /\ InLoop
    /\ LineKind(Stripped) = "commentary"
    /\ i' = i + 1
    /\ previous_line_type' = "empty"
    /\ UNCHANGED <<fileExists, fileText, pc, lines, cleaned_lines, outputs, runs>>

\* An indented line: continue.
Commentary ==
    /\ InLoop
    /\ LineKind(Stripped) = "commentary"
    /\ i' = i + 1
    /\ UNCHANGED <<fileExists, fileText, pc, lines, cleaned_lines,
                   previous_line_type, outputs, runs>>

Title ==
    /\ InLoop
    /\ LineKind(Stripped) = "title"
    /\ cleaned_lines' =
          (IF NeedsDelimiter(cleaned_lines)
             THEN Append(cleaned_lines, Delimiter)
             ELSE cleaned_lines) \o <<TitleEntry(Stripped)>>
    /\ previous_line_type' = "title"
    /\ i' = i + 1
    /\ UNCHANGED <<fileExists, fileText, pc, lines, outputs, runs>>

Blank ==
    /\ InLoop
    /\ LineKind(Stripped) = "blank"
    /\ cleaned_lines' =
          (IF AppendsBlank(cleaned_lines, previous_line_type)
             THEN Append(cleaned_lines, <<>>)
             ELSE cleaned_lines)
    /\ previous_line_type' = "empty"
    /\ i' = i + 1
    /\ UNCHANGED <<fileExists, fileText, pc, lines, outputs, runs>>

Body ==
    /\ InLoop
    /\ LineKind(Stripped) = "body"
    /\ cleaned_lines' = Append(cleaned_lines, Stripped)
    /\ previous_line_type' = "text"
    /\ i' = i + 1
    /\ UNCHANGED <<fileExists, fileText, pc, lines, outputs, runs>>

\* The loop is over: join, strip, add the final newline, overwrite the file.
WriteFile ==
    /\ pc = "loop"
    /\ i > Len(lines)
    /\ fileText' = FinalText(cleaned_lines)
    /\ outputs' = Append(outputs, FinalText(cleaned_lines))
    /\ pc' = "done"
    /\ UNCHANGED <<fileExists, lines, i, cleaned_lines, previous_line_type, runs>>

\* clean_fables is called again on the same path.
Rerun ==
    /\ pc = "done"
    /\ runs < MaxRuns
    /\ runs' = runs + 1
    /\ pc' = "start"
    /\ UNCHANGED <<fileExists, fileText, lines, i, cleaned_lines,
                   previous_line_type, outputs>>

Next ==
    \/ RaiseNotFound
    \/ ReadLines
    \/ Commentary
    \/ Title
    \/ Blank
    \/ Body
    \/ WriteFile
    \/ Rerun

Spec == Init /\ [][Next]_vars

----------------------------------------------------------------------------
\* The pass as a function of the lines read: the loop of clean_fables run
\* over ls from the state st = [cl |-> cleaned_lines, prev |-> type].

LoopStep(st, line) ==
    LET stripped == rstrip_nl(line)
        kind == LineKind(stripped)
    IN  IF kind = "commentary" THEN st
        ELSE IF kind = "title" THEN
            [cl |-> (IF NeedsDelimiter(st.cl) THEN Append(st.cl, Delimiter)
                     ELSE st.cl) \o <<TitleEntry(stripped)>>,
             prev |-> "title"]
        ELSE IF kind = "blank" THEN
            [cl |-> (IF AppendsBlank(st.cl, st.prev) THEN Append(st.cl, <<>>)
                     ELSE st.cl),
             prev |-> "empty"]
        ELSE [cl |-> Append(st.cl, stripped), prev |-> "text"]

RECURSIVE Pass(_, _)
Pass(st, ls) ==
    IF ls = <<>> THEN st ELSE Pass(LoopStep(st, Head(ls)), Tail(ls))

PassStart == [cl |-> <<>>, prev |-> "none"]

----------------------------------------------------------------------------
\* Vocabulary of the properties.

\* The lines of a written text, without their newlines.
FileLines(text) ==
    LET rl == readlines(text) IN [k \in 1..Len(rl) |-> rstrip_nl(rl[k])]

Indented(line) == startswith(line, " ") \/ startswith(line, "\t")

KindOfRaw(k) == LineKind(rstrip_nl(lines[k]))

\* The raw lines that are not commentary, in order.
WithoutCommentary(ls) ==
    SelectSeq(ls, LAMBDA l : LineKind(rstrip_nl(l)) # "commentary")

NoTwoInARow(seq, x) ==
    \A k \in 1..(Len(seq) - 1) : ~(seq[k] = x /\ seq[k + 1] = x)

TitlesFollowDelimiter(seq) ==
    \A k \in 1..Len(seq) :
        is_title_line(seq[k]) => (k > 1 /\ seq[k - 1] = Delimiter)

----------------------------------------------------------------------------
\* C1: a second call of clean_fables on the file the first call wrote
\* writes the same text again: each call's output equals the previous one's.
C1_Idempotent ==
    \A k \in 1..(Len(outputs) - 1) : outputs[k + 1] = outputs[k]

\* Witness: two completed calls on a file whose output has a delimiter, a
\* title, a blank separator and a body line.
C1_Witness ==
    /\ Len(outputs) >= 2
    /\ LET fl == FileLines(outputs[1]) IN
       /\ Len(fl) >= 4
       /\ \E k \in 1..Len(fl) : fl[k] = Delimiter
       /\ \E k \in 1..Len(fl) : fl[k] = <<>>

\* C2: neither the Cleaned Sequence (after every processed line) nor the
\* written file ever holds two delimiter lines in direct succession.
C2_NoConsecutiveDelimiters ==
    /\ NoTwoInARow(cleaned_lines, Delimiter)
    /\ pc = "done" => NoTwoInARow(FileLines(fileText), Delimiter)

\* C3: in the written file every delimiter line is immediately followed by
\* a title line; none is last or followed by a body, blank or delimiter line.
C3_DelimiterFollowedByTitle ==
    pc = "done" =>
        LET fl == FileLines(fileText) IN
        \A k \in 1..Len(fl) :
            fl[k] = Delimiter => (k < Len(fl) /\ is_title_line(fl[k + 1]))

\* C4: every line that passes is_title_line, in the Cleaned Sequence and in
\* the written file, is immediately preceded by a delimiter line.
C4_TitlePrecededByDelimiter ==
    /\ TitlesFollowDelimiter(cleaned_lines)
    /\ pc = "done" => TitlesFollowDelimiter(FileLines(fileText))

\* Witness: a finished call whose first title came right after a delimiter
\* line of the input (none added) and whose second title had one added.
C4_Witness ==
    /\ pc = "done"
    /\ Len(lines) = 3
    /\ rstrip_nl(lines[1]) = Delimiter
    /\ KindOfRaw(2) = "title"
    /\ KindOfRaw(3) = "title"
    /\ Len(cleaned_lines) = 4
    /\ cleaned_lines[3] = Delimiter

\* C5: neither the Cleaned Sequence nor the written file ever holds two
\* empty lines in direct succession.
C5_NoConsecutiveBlankLines ==
    /\ NoTwoInARow(cleaned_lines, <<>>)
    /\ pc = "done" => NoTwoInARow(FileLines(fileText), <<>>)

\* Witness: the loop has just handled a second blank line in a row while
\* the last entry of the Cleaned Sequence was already the empty string.
C5_Witness ==
    /\ pc = "loop"
    /\ i > 2
    /\ KindOfRaw(i - 1) = "blank"
    /\ KindOfRaw(i - 2) = "blank"
    /\ Len(cleaned_lines) >= 2
    /\ cleaned_lines[Len(cleaned_lines)] = <<>>

\* C6: no line of the written file starts with a space or a tab.
C6_NoIndentation ==
    pc = "done" =>
        LET fl == FileLines(fileText) IN
        \A k \in 1..Len(fl) : ~Indented(fl[k])

\* Witness: a finished call on an input with a space-indented and a
\* tab-indented line, whose first kept line began with whitespace that the
\* whole-text strip removed.
C6_Witness ==
    /\ pc = "done"
    /\ \E k \in 1..Len(lines) : startswith(lines[k], " ")
    /\ \E k \in 1..Len(lines) : startswith(lines[k], "\t")
    /\ cleaned_lines # <<>>
    /\ startswith(cleaned_lines[1], "\f")
    /\ Len(fileText) > 1

\* C7: the written file ends with one newline, and the character before it,
\* if any, is not a newline or other whitespace (no trailing blank line).
C7_TrailingNewline ==
    pc = "done" =>
        /\ Len(fileText) >= 1
        /\ fileText[Len(fileText)] = NL
        /\ Len(fileText) > 1 => ~IsWhitespace(fileText[Len(fileText) - 1])

\* Witness: a finished call whose Cleaned Sequence ended with a blank
\* separator after a line with trailing whitespace.
C7_Witness ==
    /\ pc = "done"
    /\ Len(cleaned_lines) >= 2
    /\ cleaned_lines[Len(cleaned_lines)] = <<>>
    /\ LET e == cleaned_lines[Len(cleaned_lines) - 1] IN
       e # <<>> /\ e[Len(e)] = " "
    /\ Len(fileText) > 1

\* C8: on a path that does not exist the call ends in FileNotFoundError
\* with nothing read, nothing written and no file created; and without the
\* file the call never gets past the existence test.
C8_MissingFile ==
    /\ pc = "error" =>
          /\ ~fileExists
          /\ fileText = <<>>
          /\ outputs = <<>>
          /\ lines = <<>>
          /\ cleaned_lines = <<>>
    /\ ~fileExists => pc \in {"start", "error"}

\* Witness: the call on a missing path has raised.
C8_Witness == pc = "error" /\ ~fileExists

\* C9 as stated: the entry appended for a title line is the line trimmed of
\* leading and trailing whitespace, and so is every title line of the file.
C9_TitleEntryTrimmed ==
    /\ (pc = "loop" /\ i > 1 /\ KindOfRaw(i - 1) = "title") =>
          cleaned_lines[Len(cleaned_lines)] = strip(lines[i - 1])
    /\ pc = "done" =>
          LET fl == FileLines(fileText) IN
          \A k \in 1..Len(fl) : is_title_line(fl[k]) => fl[k] = strip(fl[k])

\* C9 amended: the entry appended for a title line is the raw line without
\* its trailing newline, other whitespace kept; in the written file a title
\* line is that entry, except that the last line of the file has lost its
\* trailing whitespace.
C9_TitleEntryVerbatim ==
    /\ (pc = "loop" /\ i > 1 /\ KindOfRaw(i - 1) = "title") =>
          cleaned_lines[Len(cleaned_lines)] = rstrip_nl(lines[i - 1])
    /\ pc = "done" =>
          LET fl == FileLines(fileText) IN
          \A k \in 1..Len(fl) :
              is_title_line(fl[k]) =>
                  /\ k <= Len(cleaned_lines)
                  /\ fl[k] = IF k = Len(fl) THEN rstrip(cleaned_lines[k])
                             ELSE cleaned_lines[k]

\* Witness: the loop has just handled a title line that carries whitespace
\* around its text, after an earlier line.
C9_Witness ==
    /\ pc = "loop"
    /\ i > 2
    /\ KindOfRaw(i - 1) = "title"
    /\ strip(lines[i - 1]) # rstrip_nl(lines[i - 1])
    /\ Len(cleaned_lines) >= 3

\* C10: commentary lines are transparent: after any number of processed
\* lines the Cleaned Sequence and the Classification State are those of the
\* pass over the same lines with the commentary lines deleted, and the file
\* written is the one written for the input without its commentary lines.
C10_CommentaryTransparent ==
    /\ pc \in {"loop", "done"} =>
          LET st == Pass(PassStart, WithoutCommentary(SubSeq(lines, 1, i - 1)))
          IN  cleaned_lines = st.cl /\ previous_line_type = st.prev
    /\ pc = "done" =>
          fileText = FinalText(Pass(PassStart, WithoutCommentary(lines)).cl)

\* Witness: a finished call on a title, a commentary line and a body line.
C10_Witness ==
    /\ pc = "done"
    /\ Len(lines) = 3
    /\ KindOfRaw(1) = "title"
    /\ KindOfRaw(2) = "commentary"
    /\ KindOfRaw(3) = "body"
    /\ Len(cleaned_lines) = 3

====
